---- MODULE Spec2Model ----
(***************************************************************************)
(* A model of libs/virtual_joystick/utils.py: the Vec2 container, the      *)
(* periodic Timer, the supervisor request/reply packet FarmngRepReq, the   *)
(* motor RPM packet AmigaPdo2 and the value decoder unpack_req_rep_value.  *)
(*                                                                         *)
(* Bytes are integers 0..255 and byte strings are sequences of them.       *)
(* Python's struct module is modelled by what it does for the format       *)
(* codes the file uses (little-endian, standard sizes, no alignment).      *)
(* Times are integer clock ticks; a period is a whole number of ticks, so  *)
(* that a check can come a fraction of a period late.  Joystick            *)
(* coordinates are fixed-point numbers with Resolution steps per 1.0.      *)
(***************************************************************************)
EXTENDS Integers, Sequences, FiniteSets, TLC

VARIABLES
    cls,        \* the packet class a behaviour exercises
    req,        \* the FarmngRepReq object: op_id, val_id, success, payload
    pdo,        \* the AmigaPdo2 object: a_rpm, b_rpm, c_rpm, d_rpm
    data,       \* the bytes the last successful encode() returned
    sent,       \* the fields of the object when data was encoded
    fed,        \* the bytes handed to decode(), when it ran last
    now,        \* time.monotonic(), in ticks
    timer,      \* the Timer object: period_s, stamp
    chk,        \* what the last Timer.check() saw, computed and returned
    poll,       \* the Timer's history: when it was made (t0), whether check()
                \* has run at every instant and reset() never (steady),
                \* whether check() has run at this instant (polled), the
                \* instant check() last returned true (last_fire), the
                \* missed_periods it computed then (fire_missed), and the
                \* true returns at this instant, counted up to 2 (fires_now)
    call,       \* the arguments of the last unpack_req_rep_value call
    result,     \* what that call returned or raised
    vec,        \* the Vec2 object: x, y
    arg,        \* the arguments the Vec2 was constructed from
    last,       \* the operation that ran last
    err         \* the exception the last operation raised, or "none"

codecVars == <<cls, req, pdo, data, sent, fed>>
timerVars == <<now, timer, chk, poll>>
valueVars == <<call, result>>
vecVars == <<vec, arg>>
vars == <<cls, req, pdo, data, sent, fed, now, timer, chk, poll,
          call, result, vec, arg, last, err>>

-----------------------------------------------------------------------------
(* Bounds of the model. *)

\* decode() is fed byte strings of every length within LenSpread of the
\* packet's size.
LenSpread == 1
\* The clock runs from 0 to MaxTime ticks.
MaxTime == 12
\* Timer periods are 1..MaxPeriod ticks.
MaxPeriod == 3
\* Vec2 arguments have magnitude up to MaxMag (in units of 1.0), in steps of
\* 1/Resolution.
MaxMag == 3
Resolution == 2

-----------------------------------------------------------------------------
(* Python integers and the struct module. *)

\* a | b for non-negative integers.
RECURSIVE BitOr(_, _)
BitOr(a, b) ==
    IF a = 0 THEN b
    ELSE IF b = 0 THEN a
    ELSE (IF a % 2 = 1 \/ b % 2 = 1 THEN 1 ELSE 0) + 2 * BitOr(a \div 2, b \div 2)

\* a & b for a non-negative integer a and any integer b (two's complement,
\* as Python's unbounded integers behave): b % 2 and b \div 2 floor.
RECURSIVE BitAnd(_, _)
BitAnd(a, b) ==
    IF a = 0 THEN 0
    ELSE (IF a % 2 = 1 /\ b % 2 = 1 THEN 1 ELSE 0) + 2 * BitAnd(a \div 2, b \div 2)

\* ~a
BitNot(a) == -a - 1

\* a << n and a >> n
ShiftLeft(a, n) == a * 2^n
ShiftRight(a, n) == a \div 2^n

\* The bytes each format code takes.
FieldSize(c) ==
    CASE c = "B" -> 1
      [] c = "H" -> 2
      [] c = "h" -> 2
      [] c = "x" -> 1
      [] c = "f" -> 4
      [] c = "4s" -> 4

\* struct.calcsize
RECURSIVE calcsize(_)
calcsize(fmt) ==
    IF fmt = <<>> THEN 0 ELSE FieldSize(Head(fmt)) + calcsize(Tail(fmt))

\* The little-endian bytes of the unsigned integer u, n of them.
RECURSIVE LittleEndian(_, _)
LittleEndian(u, n) ==
    IF n = 0 THEN <<>> ELSE <<u % 2^8>> \o LittleEndian(u \div 2^8, n - 1)

\* The unsigned integer a little-endian byte string holds.
RECURSIVE FromLittleEndian(_)
FromLittleEndian(b) ==
    IF b = <<>> THEN 0 ELSE Head(b) + 2^8 * FromLittleEndian(Tail(b))

\* Whether struct.pack accepts v for the code c; it raises struct.error
\* otherwise.
FieldOk(c, v) ==
    CASE c = "B" -> v \in 0..(2^8 - 1)
      [] c = "H" -> v \in 0..(2^16 - 1)
      [] c = "h" -> v \in (-(2^15))..(2^15 - 1)
      [] c = "4s" -> TRUE

\* The bytes struct.pack writes for v under the code c.  "4s" truncates a
\* longer byte string and pads a shorter one with zero bytes.
PackField(c, v) ==
    CASE c = "B" -> LittleEndian(v, 1)
      [] c = "H" -> LittleEndian(v, 2)
      [] c = "h" -> LittleEndian((v + 2^16) % 2^16, 2)
      [] c = "4s" -> [i \in 1..4 |-> IF i <= Len(v) THEN v[i] ELSE 0]

\* The value struct.unpack reads from the bytes b under the code c.  A
\* float is kept as the four bytes that represent it: every bit pattern is
\* some float, so reading one never fails.
UnpackField(c, b) ==
    CASE c = "B" -> FromLittleEndian(b)
      [] c = "H" -> FromLittleEndian(b)
      [] c = "h" -> LET u == FromLittleEndian(b)
                    IN  IF u >= 2^15 THEN u - 2^16 ELSE u
      [] c = "f" -> [f32 |-> b]
      [] c = "4s" -> b

RECURSIVE PackOk(_, _)
PackOk(fmt, args) ==
    IF fmt = <<>> THEN args = <<>>
    ELSE IF Head(fmt) = "x" THEN PackOk(Tail(fmt), args)
    ELSE /\ args # <<>>
         /\ FieldOk(Head(fmt), Head(args))
         /\ PackOk(Tail(fmt), Tail(args))

RECURSIVE PackBytes(_, _)
PackBytes(fmt, args) ==
    IF fmt = <<>> THEN <<>>
    ELSE IF Head(fmt) = "x" THEN <<0>> \o PackBytes(Tail(fmt), args)
    ELSE PackField(Head(fmt), Head(args)) \o PackBytes(Tail(fmt), Tail(args))

\* struct.pack(fmt, *args): the bytes, or struct.error.
struct_pack(fmt, args) ==
    IF PackOk(fmt, args)
    THEN [ok |-> TRUE, bytes |-> PackBytes(fmt, args)]
    ELSE [ok |-> FALSE, bytes |-> <<>>]

RECURSIVE UnpackValues(_, _)
UnpackValues(fmt, b) ==
    IF fmt = <<>> THEN <<>>
    ELSE LET n == FieldSize(Head(fmt))
             rest == UnpackValues(Tail(fmt), SubSeq(b, n + 1, Len(b)))
         IN  IF Head(fmt) = "x" THEN rest
             ELSE <<UnpackField(Head(fmt), SubSeq(b, 1, n))>> \o rest

\* struct.unpack(fmt, buffer): the values, or struct.error when the buffer
\* is not calcsize(fmt) bytes long.
struct_unpack(fmt, b) ==
    IF Len(b) = calcsize(fmt)
    THEN [ok |-> TRUE, values |-> UnpackValues(fmt, b)]
    ELSE [ok |-> FALSE, values |-> <<>>]

-----------------------------------------------------------------------------
(* The request/reply identifiers and the value format table. *)

ReqRepOpIds == [NOP |-> 0, READ |-> 1, WRITE |-> 2, STORE |-> 3]

ReqRepValIds ==
    [NOP |-> 0, MAX_SPEED_LEVEL |-> 10, FLIP_JOYSTICK |-> 11,
     MAX_TURN_RATE |-> 20, MIN_TURN_RATE |-> 21, MAX_LIN_ACC |-> 22,
     MAX_ANG_ACC |-> 23, M10_ON |-> 30, M11_ON |-> 31, M12_ON |-> 32,
     M13_ON |-> 33, M14_ON |-> 34, M15_ON |-> 35, BATT_LO |-> 40,
     BATT_HI |-> 41, WHEEL_TRACK |-> 50, WHEEL_BASELINE |-> 51,
     WHEEL_GEAR_RATIO |-> 52, WHEEL_RADIUS |-> 53, PTO_CUR_DEV |-> 80,
     PTO_CUR_RPM |-> 81, PTO_MIN_RPM |-> 82, PTO_MAX_RPM |-> 83,
     PTO_DEF_RPM |-> 84, PTO_GEAR_RATIO |-> 84, STEERING_GAMMA |-> 90]

ReqRepValFmts ==
    [SHORT |-> <<"h", "x", "x">>, USHORT |-> <<"H", "x", "x">>,
     FLOAT |-> <<"f">>, BOOL |-> <<"B", "x", "x", "x">>]

\* The entries of the dict literal, in its order; a later entry with the
\* key of an earlier one replaces it.
req_rep_val_fmt_items ==
    <<  <<ReqRepValIds.MAX_SPEED_LEVEL, ReqRepValFmts.USHORT>>,
        <<ReqRepValIds.FLIP_JOYSTICK, ReqRepValFmts.BOOL>>,
        <<ReqRepValIds.MAX_TURN_RATE, ReqRepValFmts.FLOAT>>,
        <<ReqRepValIds.MIN_TURN_RATE, ReqRepValFmts.FLOAT>>,
        <<ReqRepValIds.MAX_ANG_ACC, ReqRepValFmts.FLOAT>>,
        <<ReqRepValIds.M10_ON, ReqRepValFmts.BOOL>>,
        <<ReqRepValIds.M11_ON, ReqRepValFmts.BOOL>>,
        <<ReqRepValIds.M12_ON, ReqRepValFmts.BOOL>>,
        <<ReqRepValIds.M13_ON, ReqRepValFmts.BOOL>>,
        <<ReqRepValIds.BATT_LO, ReqRepValFmts.FLOAT>>,
        <<ReqRepValIds.BATT_HI, ReqRepValFmts.FLOAT>>,
        <<ReqRepValIds.WHEEL_TRACK, ReqRepValFmts.FLOAT>>,
        <<ReqRepValIds.WHEEL_GEAR_RATIO, ReqRepValFmts.FLOAT>>,
        <<ReqRepValIds.WHEEL_RADIUS, ReqRepValFmts.FLOAT>>,
        <<ReqRepValIds.PTO_CUR_DEV, ReqRepValFmts.USHORT>>,
        <<ReqRepValIds.PTO_CUR_RPM, ReqRepValFmts.FLOAT>>,
        <<ReqRepValIds.PTO_MIN_RPM, ReqRepValFmts.FLOAT>>,
        <<ReqRepValIds.PTO_MAX_RPM, ReqRepValFmts.FLOAT>>,
        <<ReqRepValIds.PTO_DEF_RPM, ReqRepValFmts.FLOAT>>,
        <<ReqRepValIds.PTO_GEAR_RATIO, ReqRepValFmts.FLOAT>>,
        <<ReqRepValIds.STEERING_GAMMA, ReqRepValFmts.FLOAT>>  >>

req_rep_val_fmt_dict ==
    LET items == req_rep_val_fmt_items
        keys == {items[i][1] : i \in 1..Len(items)}
        lastAt(k) == CHOOSE i \in 1..Len(items) :
                        /\ items[i][1] = k
                        /\ \A j \in 1..Len(items) : items[j][1] = k => j <= i
    IN  [k \in keys |-> items[lastAt(k)][2]]

\* unpack_req_rep_value with the table's lookup skipped: every id is read
\* as a float.
unpack_req_rep_value_nolookup(val_id, payload) ==
    IF Len(payload) # 4 THEN [raised |-> "AssertionError", value |-> <<>>]
    ELSE LET u == struct_unpack(ReqRepValFmts.FLOAT, payload)
         IN  [raised |-> "none", value |-> u.values[1]]

\* unpack_req_rep_value: the assert comes first, then the table lookup
\* (KeyError for an id without an entry), then struct.unpack.
unpack_req_rep_value(val_id, payload) ==
    IF Len(payload) # 4 THEN [raised |-> "AssertionError", value |-> <<>>]
    ELSE IF val_id \notin DOMAIN req_rep_val_fmt_dict
    THEN [raised |-> "KeyError", value |-> <<>>]
    ELSE LET u == struct_unpack(req_rep_val_fmt_dict[val_id], payload)
         IN  IF u.ok THEN [raised |-> "none", value |-> u.values[1]]
             ELSE [raised |-> "struct.error", value |-> <<>>]

-----------------------------------------------------------------------------
(* FarmngRepReq.  success is a Python bool, an integer 0 or 1. *)

FarmngRepReq_format == <<"B", "H", "x", "4s">>

\* FarmngRepReq.__init__
FarmngRepReq_new(op_id, val_id, success, payload) ==
    [op_id |-> op_id, val_id |-> val_id, success |-> success,
     payload |-> payload]

\* encode() with the success flag left out of byte 0.
FarmngRepReq_encode_noflag(self) ==
    struct_pack(FarmngRepReq_format,
                <<self.op_id, self.val_id, self.payload>>)

\* encode() with a 7-byte layout, the pad byte dropped.
FarmngRepReq_encode_nopad(self) ==
    struct_pack(<<"B", "H", "4s">>,
                <<BitOr(self.op_id, ShiftLeft(self.success, 7)),
                  self.val_id, self.payload>>)

\* FarmngRepReq.encode
FarmngRepReq_encode(self) ==
    struct_pack(FarmngRepReq_format,
                <<BitOr(self.op_id, ShiftLeft(self.success, 7)),
                  self.val_id, self.payload>>)

\* decode() reading the value id before the rest of the packet is known to
\* be there.
FarmngRepReq_decode_partial(self, d) ==
    LET u == struct_unpack(FarmngRepReq_format, d)
        op_and_s == u.values[1]
    IN  IF u.ok
        THEN [ok |-> TRUE,
              self |-> [op_id |-> BitAnd(op_and_s, BitNot(128)),
                        val_id |-> u.values[2],
                        success |-> ShiftRight(op_and_s, 7),
                        payload |-> u.values[3]]]
        ELSE IF Len(d) >= 3
        THEN [ok |-> FALSE,
              self |-> [self EXCEPT !.val_id = FromLittleEndian(SubSeq(d, 2, 3))]]
        ELSE [ok |-> FALSE, self |-> self]

\* FarmngRepReq.decode: struct.unpack raises before any field is assigned.
FarmngRepReq_decode(self, d) ==
    LET u == struct_unpack(FarmngRepReq_format, d)
        op_and_s == u.values[1]
    IN  IF u.ok
        THEN [ok |-> TRUE,
              self |-> [op_id |-> BitAnd(op_and_s, BitNot(128)),
                        val_id |-> u.values[2],
                        success |-> ShiftRight(op_and_s, 7),
                        payload |-> u.values[3]]]
        ELSE [ok |-> FALSE, self |-> self]

-----------------------------------------------------------------------------
(* AmigaPdo2 *)

AmigaPdo2_format == <<"h", "h", "h", "h">>

\* AmigaPdo2.__init__
AmigaPdo2_new(a, b, c, d) ==
    [a_rpm |-> a, b_rpm |-> b, c_rpm |-> c, d_rpm |-> d]

\* encode() that wraps each value to 16 bits instead of refusing it.
AmigaPdo2_encode_wrapping(self) ==
    LET wrap(v) == ((v + 2^15) % 2^16) - 2^15
    IN  struct_pack(AmigaPdo2_format,
                    <<wrap(self.a_rpm), wrap(self.b_rpm),
                      wrap(self.c_rpm), wrap(self.d_rpm)>>)

\* AmigaPdo2.encode
AmigaPdo2_encode(self) ==
    struct_pack(AmigaPdo2_format,
                <<self.a_rpm, self.b_rpm, self.c_rpm, self.d_rpm>>)

\* AmigaPdo2.decode
AmigaPdo2_decode(self, d) ==
    LET u == struct_unpack(AmigaPdo2_format, d)
    IN  IF u.ok
        THEN [ok |-> TRUE,
              self |-> [a_rpm |-> u.values[1], b_rpm |-> u.values[2],
                        c_rpm |-> u.values[3], d_rpm |-> u.values[4]]]
        ELSE [ok |-> FALSE, self |-> self]

-----------------------------------------------------------------------------
(* Vec2.  1.0 is Resolution steps. *)

Min(a, b) == IF b < a THEN b ELSE a
Max(a, b) == IF b > a THEN b ELSE a

\* Vec2.__init__ with the lower clip only.
Vec2_new_lower_only(x, y) ==
    [x |-> Max(-Resolution, x), y |-> Max(-Resolution, y)]

\* Vec2.__init__
Vec2_new(x, y) ==
    [x |-> Min(Max(-Resolution, x), Resolution),
     y |-> Min(Max(-Resolution, y), Resolution)]

-----------------------------------------------------------------------------
(* Timer *)

\* Timer.__init__ at the instant t.
Timer_new(period_s, t) == [period_s |-> period_s, stamp |-> t]

\* check() advancing the stamp by the elapsed periods less one.
Timer_check_short(self, stamp) ==
    IF stamp < self.stamp + self.period_s
    THEN [ret |-> FALSE, self |-> self, missed_periods |-> 0, printed |-> FALSE]
    ELSE LET missed_periods == (stamp - self.stamp) \div self.period_s
         IN  [ret |-> TRUE,
              self |-> [self EXCEPT
                           !.stamp = @ + (missed_periods - 1) * self.period_s],
              missed_periods |-> missed_periods,
              printed |-> missed_periods > 1]

\* Timer.check at the instant stamp: what it returns, the object after it,
\* the missed_periods it computed (0 when it returned early) and whether it
\* printed the catching-up line.
Timer_check(self, stamp) ==
    IF stamp < self.stamp + self.period_s
    THEN [ret |-> FALSE, self |-> self, missed_periods |-> 0, printed |-> FALSE]
    ELSE LET missed_periods == (stamp - self.stamp) \div self.period_s
         IN  [ret |-> TRUE,
              self |-> [self EXCEPT
                           !.stamp = @ + (missed_periods + 1) * self.period_s],
              missed_periods |-> missed_periods,
              printed |-> missed_periods > 1]

\* Timer.reset at the instant t.
Timer_reset(self, t) == [self EXCEPT !.stamp = t]

-----------------------------------------------------------------------------
(* The inputs the operations are given. *)

\* The four operations, and the values around the 7-bit and 8-bit limits.
OpIdInputs ==
    {ReqRepOpIds.NOP, ReqRepOpIds.READ, ReqRepOpIds.WRITE, ReqRepOpIds.STORE}
        \cup {2^7 - 1, 2^7, 2^8 - 1, 2^8}

\* The smallest and the largest 16-bit identifier, and one whose two bytes
\* differ.
ValIdInputs == {ReqRepValIds.NOP, 2^8 + 2, 2^16 - 1}

\* bytes(4), and four distinct bytes.
PayloadInputs == {<<0, 0, 0, 0>>, <<1, 2, 3, 255>>}

\* The 16-bit limits and one past each.
RpmInputs == {-(2^15) - 1, -(2^15), 2^15 - 1, 2^15}

\* The first n bytes of d followed by zero bytes.
Feed(d, n) == [i \in 1..n |-> IF i <= Len(d) THEN d[i] ELSE 0]

FeedLengths(fmt) ==
    {n \in (calcsize(fmt) - LenSpread)..(calcsize(fmt) + LenSpread) : n >= 0}

\* Every identifier ReqRepValIds names, and two it does not.
ValIdCalls ==
    {ReqRepValIds[k] : k \in DOMAIN ReqRepValIds} \cup {1, 2^16 - 1}

\* The unsigned short 1500, the float 1.0, all bits set.
ValuePayloads ==
    {Feed(p, n) : p \in {<<220, 5, 0, 0>>, <<0, 0, 128, 63>>,
                         <<255, 255, 255, 255>>},
                  n \in {m \in (4 - LenSpread)..(4 + LenSpread) : m >= 0}}

VecInputs == (-(MaxMag * Resolution))..(MaxMag * Resolution)

-----------------------------------------------------------------------------
(* The state after construction. *)

CodecStart ==
    /\ req = FarmngRepReq_new(ReqRepOpIds.NOP, ReqRepValIds.NOP, 0, <<0, 0, 0, 0>>)
    /\ pdo = AmigaPdo2_new(0, 0, 0, 0)
    /\ data = <<>>
    /\ sent = IF cls = "AmigaPdo2" THEN pdo ELSE req
    /\ fed = <<>>

TimerStart(period_s, t) ==
    /\ now = t
    /\ timer = Timer_new(period_s, t)
    /\ chk = [at |-> t, old_stamp |-> t, ret |-> FALSE, missed_periods |-> 0,
              printed |-> FALSE]
    /\ poll = [t0 |-> t, steady |-> TRUE, polled |-> FALSE, last_fire |-> -1,
               fire_missed |-> 0, fires_now |-> 0]

ValueStart ==
    /\ call = [val_id |-> ReqRepValIds.NOP, payload |-> <<>>]
    /\ result = [raised |-> "none", value |-> <<>>]

VecStart ==
    /\ vec = Vec2_new(0, 0)
    /\ arg = [x |-> 0, y |-> 0]

Started ==
    /\ last = "init"
    /\ err = "none"

-----------------------------------------------------------------------------
(* The operations on the packets. *)

\* msg = FarmngRepReq(op_id, val_id, success, payload)
ReqInit(op_id, val_id, success, payload) ==
    /\ cls = "FarmngRepReq"
    /\ req' = FarmngRepReq_new(op_id, val_id, success, payload)
    /\ last' = "init"
    /\ err' = "none"
    /\ fed' = <<>>
    /\ UNCHANGED <<cls, pdo, data, sent, timerVars, valueVars, vecVars>>

\* data = msg.encode()
ReqEncode ==
    /\ cls = "FarmngRepReq"
    /\ LET r == FarmngRepReq_encode(req)
       IN  /\ data' = IF r.ok THEN r.bytes ELSE data
           /\ sent' = IF r.ok THEN req ELSE sent
           /\ err' = IF r.ok THEN "none" ELSE "struct.error"
    /\ last' = "encode"
    /\ fed' = <<>>
    /\ UNCHANGED <<cls, req, pdo, timerVars, valueVars, vecVars>>

\* msg.decode(d), d being n bytes of data
ReqDecode(n) ==
    /\ cls = "FarmngRepReq"
    /\ LET d == Feed(data, n)
           r == FarmngRepReq_decode(req, d)
       IN  /\ fed' = d
           /\ req' = r.self
           /\ err' = IF r.ok THEN "none" ELSE "struct.error"
    /\ last' = "decode"
    /\ UNCHANGED <<cls, pdo, data, sent, timerVars, valueVars, vecVars>>

\* msg = AmigaPdo2(a, b, c, d)
PdoInit(a, b, c, d) ==
    /\ cls = "AmigaPdo2"
    /\ pdo' = AmigaPdo2_new(a, b, c, d)
    /\ last' = "init"
    /\ err' = "none"
    /\ fed' = <<>>
    /\ UNCHANGED <<cls, req, data, sent, timerVars, valueVars, vecVars>>

\* data = msg.encode()
PdoEncode ==
    /\ cls = "AmigaPdo2"
    /\ LET r == AmigaPdo2_encode(pdo)
       IN  /\ data' = IF r.ok THEN r.bytes ELSE data
           /\ sent' = IF r.ok THEN pdo ELSE sent
           /\ err' = IF r.ok THEN "none" ELSE "struct.error"
    /\ last' = "encode"
    /\ fed' = <<>>
    /\ UNCHANGED <<cls, req, pdo, timerVars, valueVars, vecVars>>

\* msg.decode(d), d being n bytes of data
PdoDecode(n) ==
    /\ cls = "AmigaPdo2"
    /\ LET d == Feed(data, n)
           r == AmigaPdo2_decode(pdo, d)
       IN  /\ fed' = d
           /\ pdo' = r.self
           /\ err' = IF r.ok THEN "none" ELSE "struct.error"
    /\ last' = "decode"
    /\ UNCHANGED <<cls, req, data, sent, timerVars, valueVars, vecVars>>

InitCodec ==
    /\ cls \in {"FarmngRepReq", "AmigaPdo2"}
    /\ CodecStart
    /\ TimerStart(1, 0)
    /\ ValueStart
    /\ VecStart
    /\ Started

NextCodec ==
    \/ \E op_id \in OpIdInputs, val_id \in ValIdInputs, success \in {0, 1},
          payload \in PayloadInputs :
           ReqInit(op_id, val_id, success, payload)
    \/ ReqEncode
    \/ \E n \in FeedLengths(FarmngRepReq_format) : ReqDecode(n)
    \/ \E a \in RpmInputs, b \in RpmInputs, c \in RpmInputs, d \in RpmInputs :
           PdoInit(a, b, c, d)
    \/ PdoEncode
    \/ \E n \in FeedLengths(AmigaPdo2_format) : PdoDecode(n)

SpecCodec == InitCodec /\ [][NextCodec]_vars

-----------------------------------------------------------------------------
(* The operations on the Timer. *)

\* The monotonic clock advances.
Tick ==
    /\ now < MaxTime
    /\ now' = now + 1
    /\ poll' = [poll EXCEPT !.steady = @ /\ poll.polled,
                            !.polled = FALSE,
                            !.fires_now = 0]
    /\ last' = "tick"
    /\ err' = "none"
    /\ UNCHANGED <<timer, chk, codecVars, valueVars, vecVars>>

\* timer.check()
TimerCheck ==
    /\ LET r == Timer_check(timer, now)
       IN  /\ timer' = r.self
           /\ chk' = [at |-> now, old_stamp |-> timer.stamp, ret |-> r.ret,
                      missed_periods |-> r.missed_periods,
                      printed |-> r.printed]
           /\ poll' = [poll EXCEPT
                          !.polled = TRUE,
                          !.last_fire = IF r.ret THEN now ELSE @,
                          !.fire_missed = IF r.ret THEN r.missed_periods ELSE @,
                          !.fires_now = IF r.ret THEN Min(@ + 1, 2) ELSE @]
    /\ last' = "check"
    /\ err' = "none"
    /\ UNCHANGED <<now, codecVars, valueVars, vecVars>>

\* timer.reset()
TimerReset ==
    /\ timer' = Timer_reset(timer, now)
    /\ poll' = [poll EXCEPT !.steady = FALSE]
    /\ last' = "reset"
    /\ err' = "none"
    /\ UNCHANGED <<now, chk, codecVars, valueVars, vecVars>>

InitTimer ==
    /\ cls = "none"
    /\ CodecStart
    /\ \E period_s \in 1..MaxPeriod, t \in 0..1 : TimerStart(period_s, t)
    /\ ValueStart
    /\ VecStart
    /\ Started

NextTimer ==
    \/ Tick
    \/ TimerCheck
    \/ TimerReset

SpecTimer == InitTimer /\ [][NextTimer]_vars

-----------------------------------------------------------------------------
(* The value decoder and the Vec2 constructor. *)

\* unpack_req_rep_value(val_id, payload)
ValueUnpack(val_id, payload) ==
    /\ call' = [val_id |-> val_id, payload |-> payload]
    /\ result' = unpack_req_rep_value(val_id, payload)
    /\ last' = "unpack"
    /\ err' = result'.raised
    /\ UNCHANGED <<codecVars, timerVars, vecVars>>

InitValue ==
    /\ cls = "none"
    /\ CodecStart
    /\ TimerStart(1, 0)
    /\ ValueStart
    /\ VecStart
    /\ Started

NextValue ==
    \E val_id \in ValIdCalls, payload \in ValuePayloads :
        ValueUnpack(val_id, payload)

SpecValue == InitValue /\ [][NextValue]_vars

\* Vec2(x, y)
VecInit(x, y) ==
    /\ vec' = Vec2_new(x, y)
    /\ arg' = [x |-> x, y |-> y]
    /\ last' = "vec2"
    /\ err' = "none"
    /\ UNCHANGED <<codecVars, timerVars, valueVars>>

InitVec == InitValue

NextVec == \E x \in VecInputs, y \in VecInputs : VecInit(x, y)

SpecVec == InitVec /\ [][NextVec]_vars

-----------------------------------------------------------------------------
(* Properties of the packets, under SpecCodec. *)

\* A message the request/reply round trip is claimed for.
ValidReqRep(m) ==
    /\ m.op_id \in 0..(2^7 - 1)
    /\ m.val_id \in 0..(2^16 - 1)
    /\ m.success \in {0, 1}
    /\ Len(m.payload) = 4

\* C1: request/reply round trip.  Once encode() has packed a message whose
\* operation is in 0..127, whose value id is in 0..65535 and whose payload
\* has 4 bytes, byte 0 is the operation with the success flag in bit 7, and
\* decode() of those bytes gives op_id, val_id, success and payload equal to
\* the ones encoded.
C1_RoundTrip ==
    (cls = "FarmngRepReq" /\ data # <<>> /\ ValidReqRep(sent)) =>
        /\ data[1] = sent.op_id + 2^7 * sent.success
        /\ (last = "decode" /\ fed = data) =>
               /\ err = "none"
               /\ req.op_id = sent.op_id
               /\ req.val_id = sent.val_id
               /\ req.success = sent.success
               /\ req.payload = sent.payload

\* Read with success set is encoded with byte 0 = 0x81 and read back.
C1_Witness ==
    /\ cls = "FarmngRepReq"
    /\ last = "decode"
    /\ fed = data
    /\ data[1] = 129
    /\ sent = FarmngRepReq_new(ReqRepOpIds.READ, 2^8 + 2, 1, <<1, 2, 3, 255>>)
    /\ req = sent

\* C2: encode() raises for every operation of 128 or more, whatever the
\* other fields are, and returns no bytes.
C2_EncodeRejectsWideOp ==
    (cls = "FarmngRepReq" /\ last = "encode" /\ req.op_id >= 2^7) =>
        err # "none"

\* C3 as stated: the packet is 7 bytes.  encode() returns 7 bytes for every
\* valid message and decode() succeeds exactly on inputs of 7 bytes.
C3_SevenBytes ==
    /\ (cls = "FarmngRepReq" /\ last = "encode" /\ ValidReqRep(req)) =>
           (err = "none" /\ Len(data) = 7)
    /\ (cls = "FarmngRepReq" /\ last = "decode") =>
           (err = "none" <=> Len(fed) = 7)

\* C3 as amended: the packet is 8 bytes.  encode() returns 8 bytes for every
\* valid message (and whenever it returns at all), and decode() succeeds
\* exactly on inputs of 8 bytes, raising struct.error on every other length.
C3_EightBytes ==
    /\ (cls = "FarmngRepReq" /\ last = "encode" /\ ValidReqRep(req)) =>
           (err = "none" /\ Len(data) = 8)
    /\ (cls = "FarmngRepReq" /\ data # <<>>) => Len(data) = 8
    /\ (cls = "FarmngRepReq" /\ last = "decode") =>
           /\ err = "none" <=> Len(fed) = 8
           /\ err \in {"none", "struct.error"}

\* decode() refuses the first 7 bytes of an encoded message.
C3_Witness ==
    /\ cls = "FarmngRepReq"
    /\ last = "decode"
    /\ Len(data) = 8
    /\ fed = SubSeq(data, 1, 7)
    /\ err = "struct.error"

InInt16(v) == v \in (-(2^15))..(2^15 - 1)

\* C6: AmigaPdo2.encode() raises exactly when one of the four values is
\* outside [-32768, 32767], then returning nothing; otherwise it returns 8
\* bytes, and decode() of them gives the four values back, each in its
\* channel.
C6_TelemetryEncode ==
    cls = "AmigaPdo2" =>
        /\ last = "encode" =>
               (err = "none" <=> /\ InInt16(pdo.a_rpm)
                                 /\ InInt16(pdo.b_rpm)
                                 /\ InInt16(pdo.c_rpm)
                                 /\ InInt16(pdo.d_rpm))
        /\ (last = "encode" /\ err = "none") => sent = pdo
        /\ data # <<>> =>
               /\ Len(data) = 8
               /\ InInt16(sent.a_rpm) /\ InInt16(sent.b_rpm)
               /\ InInt16(sent.c_rpm) /\ InInt16(sent.d_rpm)
        /\ (data # <<>> /\ last = "decode" /\ fed = data) =>
               /\ err = "none"
               /\ pdo.a_rpm = sent.a_rpm
               /\ pdo.b_rpm = sent.b_rpm
               /\ pdo.c_rpm = sent.c_rpm
               /\ pdo.d_rpm = sent.d_rpm

\* Four values at the limits, differing between neighbouring channels, come
\* back from the bytes.
C6_Witness ==
    /\ cls = "AmigaPdo2"
    /\ last = "decode"
    /\ data # <<>>
    /\ fed = data
    /\ sent = AmigaPdo2_new(-(2^15), 2^15 - 1, 2^15 - 1, -(2^15))
    /\ pdo = sent

\* The fields a FarmngRepReq holds after reading the 8 bytes b.
ReqFieldsOf(b) ==
    [op_id |-> b[1] % 2^7, val_id |-> b[2] + 2^8 * b[3],
     success |-> b[1] \div 2^7, payload |-> <<b[5], b[6], b[7], b[8]>>]

Int16Of(lo, hi) ==
    IF hi >= 2^7 THEN lo + 2^8 * hi - 2^16 ELSE lo + 2^8 * hi

\* The fields an AmigaPdo2 holds after reading the 8 bytes b.
PdoFieldsOf(b) ==
    [a_rpm |-> Int16Of(b[1], b[2]), b_rpm |-> Int16Of(b[3], b[4]),
     c_rpm |-> Int16Of(b[5], b[6]), d_rpm |-> Int16Of(b[7], b[8])]

\* C8: no partial decode.  A decode() that raises leaves every field of the
\* object as it was; a decode() that succeeds sets every field from the
\* input.
C8_NoPartialDecode ==
    [][ last' = "decode" =>
            IF err' # "none"
            THEN req' = req /\ pdo' = pdo
            ELSE /\ cls = "FarmngRepReq" => req' = ReqFieldsOf(fed')
                 /\ cls = "AmigaPdo2" => pdo' = PdoFieldsOf(fed') ]_vars

\* A decode() has failed on an object whose fields differ from the ones the
\* bytes it was fed start with.
C8_Witness ==
    /\ cls = "FarmngRepReq"
    /\ last = "decode"
    /\ err = "struct.error"
    /\ Len(fed) = 7
    /\ fed[2] + 2^8 * fed[3] = 2^8 + 2
    /\ req.val_id = 2^16 - 1
    /\ req.op_id = ReqRepOpIds.STORE

-----------------------------------------------------------------------------
(* Properties of the Timer, under SpecTimer. *)

\* C4: a check() at or after the deadline (stamp + period, the first instant
\* at which check() returns true) computes the whole periods elapsed since
\* the deadline, reports them exactly when there are some, and moves the
\* deadline forward by one period more than that.
C4_CatchUpStep ==
    LET period == timer.period_s
        deadline == chk.old_stamp + period
        missedPeriods == (chk.at - deadline) \div period
    IN  (last = "check" /\ chk.at >= deadline) =>
            /\ chk.ret
            /\ chk.printed <=> missedPeriods > 0
            /\ chk.printed => chk.missed_periods = missedPeriods
            /\ timer.stamp + period = deadline + (missedPeriods + 1) * period

\* C5: a check() that returned true leaves the deadline after the instant
\* it ran at, and no instant sees two checks return true.
C5_NoRefire ==
    /\ (last = "check" /\ chk.ret) => timer.stamp + timer.period_s > now
    /\ poll.fires_now <= 1

\* A check returned true several periods late, and a later check at the
\* same instant returned false.
C5_Witness ==
    /\ last = "check"
    /\ chk.at = now
    /\ ~chk.ret
    /\ poll.fires_now = 1
    /\ poll.last_fire = now
    /\ poll.fire_missed >= 3

\* C10: polled at every instant and never reset, check() returns true at the
\* instants t0 + k * period, k >= 1, and at no others.
C10_SteadyRate ==
    (poll.steady /\ poll.polled) =>
        (poll.last_fire = now <=>
            (now > poll.t0 /\ (now - poll.t0) % timer.period_s = 0))

-----------------------------------------------------------------------------
(* Properties of the value decoder, under SpecValue, and of Vec2, under    *)
(* SpecVec.                                                                *)

\* The identifiers with an entry in the format table.
RegisteredValIds ==
    {10, 11, 20, 21, 23, 30, 31, 32, 33, 40, 41, 50, 52, 53,
     80, 81, 82, 83, 84, 90}

\* C7: a payload that is not 4 bytes long is refused for its length whatever
\* the value id; a 4-byte payload is refused for its id exactly when the id
\* has no entry in the format table, and is decoded otherwise.
C7_ValueErrors ==
    last = "unpack" =>
        IF Len(call.payload) # 4
        THEN result.raised = "AssertionError"
        ELSE /\ result.raised = "KeyError" <=>
                    call.val_id \notin RegisteredValIds
             /\ call.val_id \in RegisteredValIds => result.raised = "none"
             /\ call.val_id \in {0, 22, 34, 35, 51} =>
                    result.raised = "KeyError"

\* MAX_LIN_ACC, which the table leaves out, is refused with a 4-byte
\* payload.
C7_Witness ==
    /\ last = "unpack"
    /\ call.val_id = ReqRepValIds.MAX_LIN_ACC
    /\ Len(call.payload) = 4
    /\ result.raised = "KeyError"

\* C9: both components of a Vec2 are in [-1.0, 1.0]; each is the argument
\* it was constructed from when that is in range, 1.0 when the argument is
\* above and -1.0 when it is below.
C9_Clamp ==
    LET clamped(v) == IF v > Resolution THEN Resolution
                      ELSE IF v < -Resolution THEN -Resolution
                      ELSE v
    IN  /\ vec.x \in (-Resolution)..Resolution
        /\ vec.y \in (-Resolution)..Resolution
        /\ vec.x = clamped(arg.x)
        /\ vec.y = clamped(arg.y)

\* Vec2(x=2.5, y=-3.0) is (1.0, -1.0).
C9_Witness ==
    /\ last = "vec2"
    /\ 2 * arg.x = 5 * Resolution
    /\ arg.y = -3 * Resolution
    /\ vec.x = Resolution
    /\ vec.y = -Resolution

====
